---- MODULE Spec2Model ----
(***************************************************************************)
(* Model of backend/main.py of ai-methods-explorer: a FastAPI gateway that *)
(* forwards text to an inference API (summarize, sentiment), normalises    *)
(* the answer and records each successful call in the SQLite table         *)
(* `requests`.  Handlers are modelled step by step (upstream call, get_db  *)
(* enter, body of the with-block, get_db exit) so that requests served by  *)
(* different workers interleave on the shared database file.               *)
(***************************************************************************)
EXTENDS Integers, Sequences, FiniteSets, TLC

(***************************************************************************)
(* Bounds of the model.                                                    *)
(***************************************************************************)
MaxRows == 3        \* rows the table may hold before inserts only fail
MaxClock == 1       \* seconds CURRENT_TIMESTAMP may advance
MaxTextLen == 514   \* longest input text of the truncation specification
MaxCands == 3       \* longest candidate list of the normalizer specification
MaxScore == 2       \* scores are 0..MaxScore tenths

Workers == {"w1", "w2"}

(***************************************************************************)
(* Program constants.                                                      *)
(***************************************************************************)
TruncateLimit == 512      \* input_data.text[:512]
DefaultLimit == 10        \* limit: int = 10

None == "none"

Min(a, b) == IF a < b THEN a ELSE b

DigitStr == <<"0", "1", "2", "3", "4", "5", "6", "7", "8", "9">>

Digit(d) == DigitStr[d + 1]

\* str() of a three-digit HTTP status code, one character per element.
StatusStr(n) == <<Digit(n \div 100), Digit((n \div 10) % 10), Digit(n % 10)>>

\* Python's `needle in hay` on strings: needle occurs as a contiguous run.
Contains(hay, needle) ==
    \E i \in 0..(Len(hay) - Len(needle)) :
        \A j \in 1..Len(needle) : hay[i + j] = needle[j]

(***************************************************************************)
(* Upstream errors.  requests raises a RequestException whose str() is     *)
(* what the sentiment handler inspects.  For an HTTPError raised by        *)
(* raise_for_status the text starts with the status code; for the other    *)
(* transport errors it is the library's message, which quotes host, port   *)
(* and the address of the connection object.                               *)
(***************************************************************************)
SummarizeUrl == <<"https://api-inference.huggingface.co/models/facebook/bart-large-cnn">>

SentimentUrl == <<"https://api-inference.huggingface.co/models/distilbert-base-uncased-finetuned-sst-", "2", "-english">>

HttpErrorStr(status, reason, url) ==
    StatusStr(status)
        \o <<" ", IF status < 500 THEN "Client Error" ELSE "Server Error", ": ">>
        \o reason \o <<" for url: ">> \o url

ConnectionErrorStr(addr) ==
    <<"HTTPSConnectionPool(host='api-inference.huggingface.co', port=", "4", "4", "3",
      "): Max retries exceeded (Caused by NewConnectionError('<HTTPSConnection object at 0x">>
        \o addr \o <<">: Failed to establish a new connection'))">>

HttpError(status, reason, url) ==
    [type |-> "HTTPError", status |-> status, str |-> HttpErrorStr(status, reason, url)]

ConnectionError(addr) ==
    [type |-> "ConnectionError", status |-> 0, str |-> ConnectionErrorStr(addr)]

NoError == [type |-> None, status |-> 0, str |-> <<>>]

\* The RequestExceptions requests.post / raise_for_status may raise.
TransportErrors(url) ==
    { HttpError(413, <<"Payload Too Large">>, url),
      HttpError(503, <<"Service Unavailable">>, url),
      ConnectionError(<<"7", "f", "4", "1", "3", "0">>),
      ConnectionError(<<"7", "f", "2", "a", "0", "0">>) }

(***************************************************************************)
(* Upstream payloads (response.json()).  A JSON value is a record          *)
(* [type, items, obj]: a list carries its items, a dict its key/value      *)
(* function.                                                               *)
(***************************************************************************)
EmptyObj == [k \in {} |-> 0]

JList(items) == [type |-> "list", items |-> items, obj |-> EmptyObj]

JDict(obj) == [type |-> "dict", items |-> <<>>, obj |-> obj]

\* Python truthiness of a JSON list or dict.
Truthy(j) == IF j.type = "list" THEN j.items # <<>> ELSE DOMAIN j.obj # {}

Summaries == {<<"summary-a">>}

SummarizePayloads ==
    { JList(<<JDict([summary_text |-> s])>>) : s \in Summaries }
        \cup { JList(<<>>),
               JDict([error |-> <<"Model is loading">>]),
               JList(<<JDict([generated_text |-> <<"x">>])>>) }

Labels == {"POSITIVE", "NEGATIVE"}

Cand(l, s) == JDict([label |-> l, score |-> s])

\* every candidate list up to n entries
RECURSIVE CandLists(_)
CandLists(n) ==
    IF n = 0 THEN {<<>>}
    ELSE LET shorter == CandLists(n - 1)
         IN  shorter \cup
             { Append(cs, Cand(l, s)) :
                 cs \in {c \in shorter : Len(c) = n - 1},
                 l \in Labels, s \in 0..MaxScore }

SentimentPayloads ==
    { JList(<<JList(<<Cand("NEGATIVE", 1), Cand("POSITIVE", 2)>>)>>),
      JList(<<JList(<<Cand("POSITIVE", 2), Cand("NEGATIVE", 2)>>)>>),
      JList(<<Cand("POSITIVE", 2)>>),
      JList(<<JList(<<>>)>>),
      JList(<<>>),
      JDict([error |-> <<"Model is loading">>]),
      JList(<<JList(<<Cand("NEGATIVE", 1), JDict([label |-> "POSITIVE"])>>)>>) }

NormPayloads == { JList(<<JList(cs)>>) : cs \in CandLists(MaxCands) }

Outcome(err, payload) == [err |-> err, payload |-> payload]

NoOutcome == Outcome(NoError, JList(<<>>))

SummarizeOutcomes ==
    { Outcome(e, JList(<<>>)) : e \in TransportErrors(SummarizeUrl) }
        \cup { Outcome(NoError, p) : p \in SummarizePayloads }

SentimentOutcomes ==
    { Outcome(e, JList(<<>>)) : e \in TransportErrors(SentimentUrl) }
        \cup { Outcome(NoError, p) : p \in SentimentPayloads }

NormOutcomes == { Outcome(NoError, p) : p \in NormPayloads }

(***************************************************************************)
(* Result Normalizer.                                                      *)
(***************************************************************************)
\* a cut at 500 characters
TruncateAt500(text) == SubSeq(text, 1, Min(Len(text), 500))

\* text[:512]
Truncate(text) == SubSeq(text, 1, Min(Len(text), TruncateLimit))

\* Place x behind every entry whose score is at least its own.
RECURSIVE InsertDesc(_, _)
InsertDesc(sorted, x) ==
    IF sorted = <<>> THEN <<x>>
    ELSE IF sorted[1].obj.score >= x.obj.score
         THEN <<sorted[1]>> \o InsertDesc(Tail(sorted), x)
         ELSE <<x>> \o sorted

\* Place x in front of every entry whose score is at most its own.
RECURSIVE InsertDescUnstable(_, _)
InsertDescUnstable(sorted, x) ==
    IF sorted = <<>> THEN <<x>>
    ELSE IF sorted[1].obj.score > x.obj.score
         THEN <<sorted[1]>> \o InsertDescUnstable(Tail(sorted), x)
         ELSE <<x>> \o sorted

RECURSIVE SortedByScoreDescUnstable(_)
SortedByScoreDescUnstable(cs) ==
    IF cs = <<>> THEN <<>>
    ELSE InsertDescUnstable(SortedByScoreDescUnstable(SubSeq(cs, 1, Len(cs) - 1)), cs[Len(cs)])

\* sorted(sentiment_data, key=lambda x: x["score"], reverse=True): stable,
\* equal scores keep their original order.
RECURSIVE SortedByScoreDesc(_)
SortedByScoreDesc(cs) ==
    IF cs = <<>> THEN <<>>
    ELSE InsertDesc(SortedByScoreDesc(SubSeq(cs, 1, Len(cs) - 1)), cs[Len(cs)])

NoResult == [sentiment |-> None, score |-> 0 - 1, text |-> <<>>]

Raised(name) == [exc |-> name, result |-> NoResult]

Returned(result) == [exc |-> None, result |-> result]

HasKey(j, k) == j.type = "dict" /\ k \in DOMAIN j.obj

\* repr of a score of s tenths
ScoreStr(s) == <<"0", ".", Digit(s)>>

\* json.dumps({"sentiment": label, "score": score})
JsonDumps(label, score) ==
    <<"{\"sentiment\": \"", label, "\", \"score\": ">> \o ScoreStr(score) \o <<"}">>

\* lines 118-120 and the lookup result[0]["summary_text"] of summarize_text
SummarizeShapeOk(p) == Truthy(p) /\ p.type = "list" /\ Len(p.items) # 0

\* lines 147-159 of analyze_sentiment, from response.json() to `result`
NormalizeSentiment(p) ==
    IF p.type = "dict" THEN Raised("KeyError")
    ELSE IF p.items = <<>> THEN Raised("IndexError")
    ELSE LET data == p.items[1] IN
         IF ~Truthy(data) THEN Raised("ValueError")
         ELSE IF data.type = "list" /\ \E i \in 1..Len(data.items) : ~HasKey(data.items[i], "score")
              THEN Raised("KeyError")
         ELSE LET best == IF data.type = "list" THEN SortedByScoreDesc(data.items)[1] ELSE data IN
              IF ~HasKey(best, "label") \/ ~HasKey(best, "score") THEN Raised("KeyError")
              ELSE Returned([sentiment |-> best.obj.label, score |-> best.obj.score,
                             text |-> JsonDumps(best.obj.label, best.obj.score)])

(***************************************************************************)
(* Log Store: the table `requests` of the database file.                   *)
(***************************************************************************)
Range(f) == { f[i] : i \in DOMAIN f }

DatabaseUrls == { <<":memory:">>, <<"ai-explorer.db">>, <<"data", "/", "ai-explorer.db">> }

\* DATABASE_URL != ':memory:' and '/' in DATABASE_URL
NeedsDirectory(url) == url # <<":memory:">> /\ "/" \in Range(url)

\* Every sqlite3.connect(':memory:') opens a private, empty database: a table
\* created by init_db on such a connection is gone when init_db returns.
SharedFile(url) == url # <<":memory:">>

\* INTEGER PRIMARY KEY AUTOINCREMENT: one more than the largest id ever used
NextRowIdStuck(seq) == seq

NextRowId(seq) == seq + 1

NewRow(id, endpoint, input_text, result, now) ==
    [id |-> id, endpoint |-> endpoint, input_text |-> input_text,
     result |-> result, timestamp |-> now]

\* the INSERT issued twice
AppendRowTwice(table, row) == Append(Append(table, row), row)

\* INSERT INTO requests (endpoint, input_text, result) VALUES (?, ?, ?); commit
AppendRow(table, row) == Append(table, row)

\* the columns the history query selects
Selected(row) ==
    [endpoint |-> row.endpoint, input_text |-> row.input_text,
     result |-> row.result, timestamp |-> row.timestamp]

RowOrders(n) ==
    { f \in [1..n -> 1..n] : \A i, j \in 1..n : i # j => f[i] # f[j] }

\* LIMIT ?: a negative limit is no limit
Limited(s, limit) == IF limit < 0 THEN s ELSE SubSeq(s, 1, Min(limit, Len(s)))

\* SELECT ... ORDER BY timestamp DESC LIMIT ?: the engine may return rows of
\* equal timestamp in any order.
QueryResults(table, limit) ==
    { Limited([i \in 1..Len(table) |-> Selected(table[f[i]])], limit) :
        f \in { g \in RowOrders(Len(table)) :
                  \A i, j \in 1..Len(table) :
                      i < j => table[g[i]].timestamp >= table[g[j]].timestamp } }

\* sqlite3.connect returns a new connection object
FreshHandle(open) == CHOOSE h \in 1..(Cardinality(open) + 1) : h \notin open

\* finally-clause of get_db that closes only after a clean with-body
CloseConnUnlessRaised(open, h, raised) == IF raised THEN open ELSE open \ {h}

\* finally: if 'conn' in locals() and conn: conn.close()
CloseConn(open, h, raised) == open \ {h}

(***************************************************************************)
(* State.                                                                  *)
(***************************************************************************)
VARIABLES
    dbUrl,        \* DATABASE_URL
    started,      \* lifespan: "starting", "serving" or "aborted"
    initErr,      \* the exception init_db caught and printed, or "none"
    tableExists,  \* the table `requests` exists in the shared database
    rows,         \* the committed rows of `requests`, in insertion order
    seq,          \* sqlite_sequence: the largest id ever assigned
    clock,        \* CURRENT_TIMESTAMP, in seconds
    conns,        \* the handles of the open connections
    req           \* per worker: the request it is handling

vars == <<dbUrl, started, initErr, tableExists, rows, seq, clock, conns, req>>

store == <<tableExists, rows, seq>>

Texts == { <<"g", "o", "o", "d">> }

\* input texts around the truncation limit, over two alphabets
LongTexts ==
    { [i \in 1..n |-> IF i % k = 0 THEN "a" ELSE "b"] : n \in 0..MaxTextLen, k \in 1..2 }

Limits == { 0 - 1, 0, 1, 2, DefaultLimit }

NoResp == [status |-> 0, body |-> None, detail |-> None, result |-> NoResult, history |-> <<>>]

Idle ==
    [kind |-> None, pc |-> "idle", input |-> <<>>, text |-> <<>>, limit |-> DefaultLimit, sent |-> <<>>,
     up |-> NoOutcome, result |-> NoResult, db |-> 0, exc |-> None, storeErr |-> None,
     logged |-> 0, resp |-> NoResp]

\* raise HTTPException(status_code=..., detail=...)
HttpException(status, detail) == [NoResp EXCEPT !.status = status, !.body = "detail", !.detail = detail]

\* an exception no handler catches: the framework answers 500 in plain text
InternalServerError == [NoResp EXCEPT !.status = 500, !.body = "plain"]

\* lines 164-167: the status analyze_sentiment gives a RequestException
SentimentErrorStatus(e) == IF Contains(e.str, <<"4", "1", "3">>) THEN 400 ELSE 500

SentimentErrorResponse(e) ==
    IF SentimentErrorStatus(e) = 400
    THEN HttpException(400, "Text is too long. Please use a shorter text (maximum 500 words).")
    ELSE HttpException(500, "API request failed")

\* the answer to an exception that leaves the with-block of a handler
ExceptionResponse(kind) ==
    IF kind = "history" THEN InternalServerError
    ELSE HttpException(500, "Error processing request")

\* the value a handler returns
SuccessResponse(r) ==
    [NoResp EXCEPT !.status = 200,
                   !.body = IF r.kind = "summarize" THEN "result" ELSE r.kind,
                   !.result = r.result]

Finish(r, resp) == [r EXCEPT !.pc = "done", !.resp = resp]

Init ==
    /\ dbUrl \in DatabaseUrls
    /\ started = "starting"
    /\ initErr = None
    /\ tableExists = FALSE
    /\ rows = <<>>
    /\ seq = 0
    /\ clock = 0
    /\ conns = {}
    /\ req = [w \in Workers |-> Idle]

(***************************************************************************)
(* lifespan / init_db                                                      *)
(***************************************************************************)
InitDbOutcomes == {"ok", "connect", "create", "commit"}

Startup ==
    /\ started = "starting"
    /\ \E makedirsFails \in BOOLEAN, o \in InitDbOutcomes :
        IF NeedsDirectory(dbUrl) /\ makedirsFails
        THEN \* os.makedirs is outside the try: the exception leaves init_db
             /\ started' = "aborted"
             /\ UNCHANGED <<initErr, tableExists>>
        ELSE /\ started' = "serving"
             /\ initErr' = IF o = "ok" THEN None ELSE o
             /\ tableExists' = (o = "ok" /\ SharedFile(dbUrl))
    /\ UNCHANGED <<dbUrl, rows, seq, clock, conns, req>>

Tick ==
    /\ clock < MaxClock
    /\ clock' = clock + 1
    /\ UNCHANGED <<dbUrl, started, initErr, store, conns, req>>

(***************************************************************************)
(* Handlers                                                                *)
(***************************************************************************)
Ready(w) == started = "serving" /\ req[w].pc \in {"idle", "done"}

ReceivePost(w, texts) ==
    /\ Ready(w)
    /\ \E kind \in {"summarize", "sentiment"}, text \in texts :
        req' = [req EXCEPT ![w] = [Idle EXCEPT !.kind = kind, !.pc = "call", !.input = text, !.text = text]]
    /\ UNCHANGED <<dbUrl, started, initErr, store, clock, conns>>

ReceiveHistory(w, limits) ==
    /\ Ready(w)
    /\ \E limit \in limits :
        req' = [req EXCEPT ![w] = [Idle EXCEPT !.kind = "history", !.pc = "connect", !.limit = limit]]
    /\ UNCHANGED <<dbUrl, started, initErr, store, clock, conns>>

GetAvailableMethods(w) ==
    /\ Ready(w)
    /\ req' = [req EXCEPT ![w] =
                 Finish([Idle EXCEPT !.kind = "methods"],
                        [NoResp EXCEPT !.status = 200, !.body = "methods"])]
    /\ UNCHANGED <<dbUrl, started, initErr, store, clock, conns>>

\* summarize_text, lines 111-120 and 126-129
SummarizeCall(w, outcomes) ==
    /\ req[w].pc = "call" /\ req[w].kind = "summarize"
    /\ \E o \in outcomes :
        LET r == [req[w] EXCEPT !.sent = req[w].text, !.up = o] IN
        req' = [req EXCEPT ![w] =
                 IF o.err.type # None THEN Finish(r, HttpException(500, "API request failed"))
                 ELSE IF ~SummarizeShapeOk(o.payload)
                      THEN Finish(r, HttpException(500, "Error processing request"))
                 ELSE [r EXCEPT !.pc = "connect"]]
    /\ UNCHANGED <<dbUrl, started, initErr, store, clock, conns>>

\* analyze_sentiment, lines 138-159 and 164-169
SentimentCall(w, outcomes) ==
    /\ req[w].pc = "call" /\ req[w].kind = "sentiment"
    /\ \E o \in outcomes :
        LET text == Truncate(req[w].text)
            norm == NormalizeSentiment(o.payload)
            r == [req[w] EXCEPT !.text = text, !.sent = text, !.up = o]
        IN  req' = [req EXCEPT ![w] =
                     IF o.err.type # None THEN Finish(r, SentimentErrorResponse(o.err))
                     ELSE IF norm.exc # None
                          THEN Finish(r, HttpException(500, "Error processing request"))
                     ELSE [r EXCEPT !.result = norm.result, !.pc = "connect"]]
    /\ UNCHANGED <<dbUrl, started, initErr, store, clock, conns>>

\* get_db up to the yield
GetDbEnter(w) ==
    /\ req[w].pc = "connect"
    /\ \E connects \in BOOLEAN :
        IF connects
        THEN LET h == FreshHandle(conns) IN
             /\ conns' = conns \cup {h}
             /\ req' = [req EXCEPT ![w] = [req[w] EXCEPT !.db = h, !.pc = "body"]]
        ELSE \* sqlite3.connect raises: nothing to close, the exception leaves the with
             /\ conns' = conns
             /\ req' = [req EXCEPT ![w] =
                         Finish([req[w] EXCEPT !.exc = "OperationalError", !.storeErr = "connect"],
                                ExceptionResponse(req[w].kind))]
    /\ UNCHANGED <<dbUrl, started, initErr, store, clock>>

\* what cursor.execute(INSERT) and db.commit() may do
LogOutcomes ==
    IF ~tableExists THEN {"no_table"}
    ELSE {"insert", "commit"} \cup (IF Len(rows) < MaxRows THEN {"ok"} ELSE {})

\* log_request: every exception is caught and printed
LogRequest(w, r, endpoint, input_text, result) ==
    \E o \in LogOutcomes :
        IF o = "ok"
        THEN /\ rows' = AppendRow(rows, NewRow(NextRowId(seq), endpoint, input_text, result, clock))
             /\ seq' = NextRowId(seq)
             /\ req' = [req EXCEPT ![w] = [r EXCEPT !.logged = r.logged + 1, !.pc = "exit"]]
             /\ UNCHANGED tableExists
        ELSE /\ req' = [req EXCEPT ![w] = [r EXCEPT !.storeErr = o, !.pc = "exit"]]
             /\ UNCHANGED store

\* summarize_text, line 123
SummarizeBody(w) ==
    /\ req[w].pc = "body" /\ req[w].kind = "summarize"
    /\ LET item == req[w].up.payload.items[1] IN
       IF ~HasKey(item, "summary_text")
       THEN /\ req' = [req EXCEPT ![w] = [req[w] EXCEPT !.exc = "KeyError", !.pc = "exit"]]
            /\ UNCHANGED store
       ELSE LogRequest(w, [req[w] EXCEPT !.result.text = item.obj.summary_text],
                       "summarize", req[w].text, item.obj.summary_text)
    /\ UNCHANGED <<dbUrl, started, initErr, clock, conns>>

\* analyze_sentiment, line 162
SentimentBody(w) ==
    /\ req[w].pc = "body" /\ req[w].kind = "sentiment"
    /\ LogRequest(w, req[w], "sentiment", req[w].text, req[w].result.text)
    /\ UNCHANGED <<dbUrl, started, initErr, clock, conns>>

\* get_request_history, lines 196-213
HistoryBody(w) ==
    /\ req[w].pc = "body" /\ req[w].kind = "history"
    /\ IF ~tableExists
       THEN req' = [req EXCEPT ![w] =
                     [req[w] EXCEPT !.exc = "OperationalError", !.storeErr = "no_table", !.pc = "exit"]]
       ELSE \/ req' = [req EXCEPT ![w] =
                        [req[w] EXCEPT !.exc = "OperationalError", !.storeErr = "select", !.pc = "exit"]]
            \/ \E records \in QueryResults(rows, req[w].limit) :
                 req' = [req EXCEPT ![w] = [req[w] EXCEPT !.resp.history = records, !.pc = "exit"]]
    /\ UNCHANGED <<dbUrl, started, initErr, store, clock, conns>>

\* get_db from the yield on: except (print, re-raise) and finally (close)
GetDbExit(w) ==
    /\ req[w].pc = "exit"
    /\ conns' = CloseConn(conns, req[w].db, req[w].exc # None)
    /\ LET r == [req[w] EXCEPT !.db = 0] IN
       req' = [req EXCEPT ![w] =
                IF r.exc # None THEN Finish(r, ExceptionResponse(r.kind))
                ELSE Finish(r, [SuccessResponse(r) EXCEPT !.history = r.resp.history])]
    /\ UNCHANGED <<dbUrl, started, initErr, store, clock>>

(***************************************************************************)
(* Specifications.                                                         *)
(*                                                                         *)
(* Spec: one server process.  The handlers are `async def` and never       *)
(* await, so the event loop runs each to completion before the next; the   *)
(* inputs range over every upstream outcome and every limit.               *)
(***************************************************************************)
Next ==
    \/ Startup
    \/ Tick
    \/ ReceivePost("w1", Texts)
    \/ ReceiveHistory("w1", Limits)
    \/ GetAvailableMethods("w1")
    \/ SummarizeCall("w1", SummarizeOutcomes)
    \/ SentimentCall("w1", SentimentOutcomes)
    \/ GetDbEnter("w1")
    \/ SummarizeBody("w1")
    \/ SentimentBody("w1")
    \/ HistoryBody("w1")
    \/ GetDbExit("w1")

Spec == Init /\ [][Next]_vars

(***************************************************************************)
(* SpecConc: several server processes on one database file; their          *)
(* handlers interleave step by step, within one second of the clock.       *)
(***************************************************************************)
ConcSummarizeOutcomes ==
    { Outcome(HttpError(503, <<"Service Unavailable">>, SummarizeUrl), JList(<<>>)),
      Outcome(NoError, JList(<<JDict([generated_text |-> <<"x">>])>>)) }
        \cup { Outcome(NoError, JList(<<JDict([summary_text |-> s])>>)) : s \in Summaries }

ConcSentimentOutcomes ==
    { Outcome(NoError, JList(<<JList(<<Cand("NEGATIVE", 1), Cand("POSITIVE", 2)>>)>>)) }

NextConc ==
    \/ Startup
    \/ \E w \in Workers :
        \/ ReceivePost(w, Texts)
        \/ ReceiveHistory(w, {DefaultLimit})
        \/ GetAvailableMethods(w)
        \/ SummarizeCall(w, ConcSummarizeOutcomes)
        \/ SentimentCall(w, ConcSentimentOutcomes)
        \/ GetDbEnter(w)
        \/ SummarizeBody(w)
        \/ SentimentBody(w)
        \/ HistoryBody(w)
        \/ GetDbExit(w)

SpecConc == Init /\ [][NextConc]_vars

(***************************************************************************)
(* SpecTrunc / SpecNorm: one sentiment request on a running server, its    *)
(* text drawn from LongTexts (SpecTrunc), its upstream answer from every   *)
(* candidate list up to MaxCands entries (SpecNorm).                       *)
(***************************************************************************)
InitServing(texts) ==
    /\ dbUrl = <<"ai-explorer.db">>
    /\ started = "serving"
    /\ initErr = None
    /\ tableExists = TRUE
    /\ rows = <<>>
    /\ seq = 0
    /\ clock = 0
    /\ conns = {}
    /\ \E text \in texts :
        req = [w \in Workers |->
                 IF w = "w1" THEN [Idle EXCEPT !.kind = "sentiment", !.pc = "call", !.input = text, !.text = text]
                 ELSE Idle]

InitTrunc == InitServing(LongTexts)

NextTrunc ==
    \/ SentimentCall("w1", SentimentOutcomes)
    \/ GetDbEnter("w1")
    \/ SentimentBody("w1")
    \/ GetDbExit("w1")

SpecTrunc == InitTrunc /\ [][NextTrunc]_vars

InitNorm == InitServing(Texts)

NextNorm ==
    \/ SentimentCall("w1", NormOutcomes)
    \/ GetDbEnter("w1")
    \/ SentimentBody("w1")
    \/ GetDbExit("w1")

SpecNorm == InitNorm /\ [][NextNorm]_vars

(***************************************************************************)
(* Properties.                                                             *)
(***************************************************************************)
Done(w) == req[w].pc = "done"

IsPost(r) == r.kind \in {"summarize", "sentiment"}

IsCand(j) == HasKey(j, "label") /\ HasKey(j, "score")

\* the candidates of a sentiment payload: [[c1, c2, ...]] or [c]
Candidates(p) == IF p.items[1].type = "list" THEN p.items[1].items ELSE <<p.items[1]>>

WellFormed(kind, p) ==
    /\ p.type = "list"
    /\ p.items # <<>>
    /\ IF kind = "summarize" THEN HasKey(p.items[1], "summary_text")
       ELSE /\ Candidates(p) # <<>>
            /\ \A i \in 1..Len(Candidates(p)) : IsCand(Candidates(p)[i])

UpstreamOk(r) == r.up.err.type = None /\ WellFormed(r.kind, r.up.payload)

\* the first candidate among those of maximum score
BestCandidate(cs) ==
    cs[CHOOSE i \in 1..Len(cs) :
          /\ \A j \in 1..Len(cs) : cs[j].obj.score <= cs[i].obj.score
          /\ \A j \in 1..(i - 1) : cs[j].obj.score < cs[i].obj.score].obj

CorrectBody(r) ==
    IF r.kind = "summarize"
    THEN r.resp.body = "result" /\ r.resp.result.text = r.up.payload.items[1].obj.summary_text
    ELSE /\ r.resp.body = "sentiment"
         /\ r.resp.result.sentiment = BestCandidate(Candidates(r.up.payload)).label
         /\ r.resp.result.score = BestCandidate(Candidates(r.up.payload)).score

\* C1: a summarize or sentiment request whose upstream call succeeded with a
\* well-formed payload answers 200 with the correct body whatever failed in
\* the Log Store during the request.
C1_StoreFailureNeverAffectsResponse ==
    \A w \in Workers :
        (Done(w) /\ IsPost(req[w]) /\ UpstreamOk(req[w]) /\ req[w].storeErr # None)
            => (req[w].resp.status = 200 /\ CorrectBody(req[w]))

\* C2: on /api/sentiment an upstream HTTP 413 answers 400 with the "too long"
\* message, and no other upstream failure answers 400.
C2_Only413Gives400 ==
    \A w \in Workers :
        (Done(w) /\ req[w].kind = "sentiment") =>
            /\ (req[w].up.err.status = 413 =>
                    /\ req[w].resp.status = 400
                    /\ req[w].resp.detail = "Text is too long. Please use a shorter text (maximum 500 words).")
            /\ (req[w].resp.status = 400 => req[w].up.err.status = 413)

Failed(r) ==
    \/ IsPost(r) /\ ~UpstreamOk(r)
    \/ r.kind = "history" /\ r.storeErr # None

\* C3: every failure other than an upstream 413 on sentiment (transport
\* error or malformed payload on summarize and sentiment, store read failure
\* on history) answers 500 with a detail string.
C3_OtherFailuresGive500WithDetail ==
    \A w \in Workers :
        (Done(w) /\ Failed(req[w]) /\ ~(req[w].kind = "sentiment" /\ req[w].up.err.status = 413))
            => (req[w].resp.status = 500 /\ req[w].resp.body = "detail" /\ req[w].resp.detail # None)

Max(a, b) == IF a > b THEN a ELSE b

\* the n most recently appended rows, newest first
ListRecent(table, n) ==
    [i \in 1..Max(0, Min(n, Len(table))) |-> Selected(table[Len(table) + 1 - i])]

\* C4: GET /api/history?limit=N answers the N most recently appended entries,
\* newest first, and never more than N (stated for the limits N >= 0, limit=2
\* after three logged calls among them; a negative N is answered with every
\* row).
C4_HistoryNewestFirst ==
    \A w \in Workers :
        (Done(w) /\ req[w].kind = "history" /\ req[w].resp.status = 200 /\ req[w].limit >= 0)
            => req[w].resp.history = ListRecent(rows, req[w].limit)

Sent(r) == r.kind = "sentiment" /\ r.pc # "call"

Prefix(text, n) == [i \in 1..Min(n, Len(text)) |-> text[i]]

\* C5 as claimed: the text sent upstream for sentiment is the first 500
\* characters of a longer input, and the input itself otherwise.
C5_TruncatedTo500 ==
    \A w \in Workers : Sent(req[w]) => req[w].sent = Prefix(req[w].input, 500)

\* C5 as amended: the text sent upstream for sentiment is the first 512
\* characters of an input longer than 512 characters, and the input itself
\* otherwise.
C5_TruncatedTo512 ==
    \A w \in Workers :
        Sent(req[w]) =>
            /\ Len(req[w].input) > 512 =>
                  /\ Len(req[w].sent) = 512
                  /\ \A i \in 1..512 : req[w].sent[i] = req[w].input[i]
            /\ Len(req[w].input) <= 512 => req[w].sent = req[w].input

C5_Witness ==
    \E w \in Workers :
        /\ Done(w) /\ req[w].kind = "sentiment" /\ req[w].resp.status = 200
        /\ Len(req[w].input) > 512
        /\ Len(req[w].sent) = 512
        /\ \E i \in 1..512 : req[w].sent[i] # req[w].sent[1]

\* C6: for a non-empty list of {label, score} candidates /api/sentiment
\* answers the label and score of the first candidate of maximum score.
C6_FirstMaximumCandidate ==
    \A w \in Workers :
        (req[w].kind = "sentiment" /\ req[w].pc # "call" /\ UpstreamOk(req[w])) =>
            LET best == BestCandidate(Candidates(req[w].up.payload)) IN
            /\ req[w].result.sentiment = best.label
            /\ req[w].result.score = best.score
            /\ (Done(w) /\ req[w].resp.status = 200) => CorrectBody(req[w])

C6_Witness ==
    \E w \in Workers :
        /\ Done(w) /\ req[w].kind = "sentiment" /\ req[w].resp.status = 200
        /\ LET cs == Candidates(req[w].up.payload) IN
           /\ Len(cs) = 3
           /\ cs[1].obj.score < cs[2].obj.score
           /\ cs[2].obj.score = cs[3].obj.score
           /\ cs[2].obj.label # cs[3].obj.label
           /\ req[w].resp.result.sentiment = cs[2].obj.label

\* the row log_request writes for request r
RowOf(r, row) ==
    /\ row.endpoint = r.kind
    /\ row.input_text = r.text
    /\ row.result = r.result.text

Appends(w) ==
    /\ Len(rows') = Len(rows) + 1
    /\ SubSeq(rows', 1, Len(rows)) = rows
    /\ RowOf(req'[w], rows'[Len(rows')])
    /\ req'[w].logged = req[w].logged + 1

NoUnloggedRow ==
    rows' # rows =>
        \E w \in Workers :
            /\ IsPost(req[w]) /\ UpstreamOk(req[w])
            /\ req[w].pc = "body" /\ req'[w].pc = "exit"
            /\ Appends(w)

\* C7 as claimed: a request whose upstream call fails appends no row, one
\* that succeeds against a Ready store appends exactly one, history and
\* methods append none.
C7_OneRowWhenReady ==
    \A w \in Workers :
        Done(w) =>
            /\ (IsPost(req[w]) /\ ~UpstreamOk(req[w])) => req[w].logged = 0
            /\ (IsPost(req[w]) /\ UpstreamOk(req[w]) /\ tableExists) => req[w].logged = 1
            /\ ~IsPost(req[w]) => req[w].logged = 0

RowsByOutcome ==
    \A w \in Workers :
        Done(w) =>
            /\ (IsPost(req[w]) /\ ~UpstreamOk(req[w])) => req[w].logged = 0
            /\ (IsPost(req[w]) /\ UpstreamOk(req[w])) =>
                  req[w].logged = (IF req[w].storeErr = None THEN 1 ELSE 0)
            /\ ~IsPost(req[w]) => req[w].logged = 0

\* C7 as amended: a request whose upstream call fails appends no row; one
\* whose upstream call succeeds appends exactly one row when its connection
\* opens and its INSERT and commit succeed, and none when any of them fails;
\* history and methods append none; and every row is appended by such a
\* successful request.
C7_OneRowWhenWriteSucceeds == [] RowsByOutcome /\ [][NoUnloggedRow]_vars

C7_Witness ==
    /\ Len(rows) = 1
    /\ tableExists
    /\ Done("w1") /\ IsPost(req["w1"]) /\ UpstreamOk(req["w1"])
    /\ req["w1"].storeErr = "insert" /\ req["w1"].logged = 0
    /\ req["w1"].resp.status = 200

\* C8: no failure of store initialization, creating the database directory
\* included, aborts startup: the hook completes and the store stays without
\* its table.
C8_InitFailureNeverAborts ==
    /\ started # "aborted"
    /\ (started = "serving" /\ initErr # None) => ~tableExists

InHandler(r) == r.pc \in {"body", "exit"}

\* C9: every open connection belongs to exactly one request, which is inside
\* its with-block; a request outside it holds none, so a handler that has
\* returned or raised leaves no connection open.
C9_ConnectionScoped ==
    /\ \A h \in conns : Cardinality({ w \in Workers : req[w].db = h }) = 1
    /\ \A w \in Workers : IF InHandler(req[w]) THEN req[w].db \in conns ELSE req[w].db = 0

C9_Witness ==
    /\ Done("w1") /\ req["w1"].kind = "summarize" /\ req["w1"].exc = "KeyError"
    /\ req["w1"].resp.status = 500
    /\ req["w2"].pc = "exit" /\ req["w2"].kind = "history" /\ req["w2"].exc # None
    /\ conns = {req["w2"].db}

IdsIncreasing == \A i, j \in 1..Len(rows) : i < j => rows[i].id < rows[j].id

RowsKept == Len(rows') >= Len(rows) /\ \A i \in 1..Len(rows) : rows'[i] = rows[i]

\* C10: the log is append-only: a written entry keeps its id, endpoint,
\* input_text, result and timestamp and is never removed, and ids strictly
\* increase in insertion order.
C10_AppendOnly == [] IdsIncreasing /\ [][RowsKept]_vars

C10_Witness ==
    /\ Len(rows) = 3
    /\ rows[1].endpoint # rows[2].endpoint
    /\ rows[2].timestamp = rows[3].timestamp
    /\ \E w \in Workers : Done(w) /\ req[w].kind = "history" /\ req[w].resp.status = 200

====
